---- MODULE Spec2Model ----
(***************************************************************************)
(* pgx-mutex: a mutex whose lock state is a PostgreSQL session advisory    *)
(* lock, fronted by one process-local sync.Mutex per resource identifier   *)
(* (the "singleton" of internal.go).                                       *)
(*                                                                         *)
(* The model follows the current Mutex of mutex.go (the one built on       *)
(* *singleton, lines 140-227), options.go and internal.go.  Every handle   *)
(* is driven by one thread of control: a handle has at most one call in    *)
(* flight.  The database is modelled by its advisory-lock table: per key   *)
(* and session a re-entrant hold count, at most one session holding a key. *)
(***************************************************************************)
EXTENDS Integers, Sequences, FiniteSets, TLC

\* ---------------------------------------------------------------- bounds
NumHandles == 2          \* handle slots of the process
MaxId == 2               \* resource identifiers are 1..MaxId (0 = "not given")
NumSessions == 2         \* database sessions usable by the process
MaxCount == 2            \* cap of the re-entrant hold count of one session
MaxOpts == 2             \* longest option list given to NewMutex

Handles == 1..NumHandles
Ids == 1..MaxId
Sessions == 1..NumSessions
Ext == 0                 \* a session of some other process
AllSessions == Sessions \cup {Ext}

Nil == -1                \* Go nil (pointer / interface)
Free == 0                \* sync.Mutex unlocked (locked: the handle that locked it)

VARIABLES
    singletons,   \* internal.go: map[int64]*singleton, as a function id -> heap index
    heap,         \* the singleton objects allocated so far: [id, mu]
    conn,         \* Mutex.conn of each handle (Nil: handle not constructed)
    so,           \* Mutex.so of each handle, a heap index (Nil: not constructed)
    pc,           \* position of the handle's thread inside Lock/TryLock/Unlock
    ret,          \* what the last completed call on the handle returned
    sent,         \* the current/last call on the handle issued a remote statement
    held,         \* Lock returned nil or TryLock (true, nil), and no Unlock returned nil since
    adv,          \* the server's advisory lock table: adv[k][s] = hold count
    crashed,      \* the Go runtime threw "sync: unlock of unlocked mutex"
    call          \* the NewMutex call under study: [options, now, ret]

vars == <<singletons, heap, conn, so, pc, ret, sent, held, adv, crashed, call>>

\* ------------------------------------------------------- the Local Registry

\* Mutant of getSingleton: a guard found in the map is replaced by a new one.
getSingleton_Replaces(r, id) ==
    LET s == Len(r.heap) + 1
    IN  [singletons |-> [k \in DOMAIN r.singletons \cup {id} |->
                            IF k = id THEN s ELSE r.singletons[k]],
         heap |-> Append(r.heap, [id |-> id, mu |-> Free]),
         s |-> s]

\* Mutant of getSingleton: the map is not consulted, every call allocates.
getSingleton_AlwaysNew(r, id) ==
    LET s == Len(r.heap) + 1
    IN  [singletons |-> (id :> s) @@ r.singletons,
         heap |-> Append(r.heap, [id |-> id, mu |-> Free]),
         s |-> s]

\* getSingleton(id) run against registry r = [singletons, heap]; the result
\* carries the registry afterwards and the returned pointer s.
getSingleton(r, id) ==
    IF id \in DOMAIN r.singletons
    THEN [singletons |-> r.singletons, heap |-> r.heap, s |-> r.singletons[id]]
    ELSE LET s == Len(r.heap) + 1
         IN  [singletons |-> (id :> s) @@ r.singletons,
              heap |-> Append(r.heap, [id |-> id, mu |-> Free]),
              s |-> s]

\* ------------------------------------------------------------ construction

WithConn(c) == [opt |-> "WithConn", conn |-> c]
WithConnStr(c) == [opt |-> "WithConnStr", conn |-> c]   \* c = Nil: pgx.Connect failed
WithResourceID(id) == [opt |-> "WithResourceID", id |-> id]
WithContext == [opt |-> "WithContext"]

Options ==
    {WithConn(c) : c \in Sessions \cup {Nil}}
        \cup {WithConnStr(c) : c \in Sessions \cup {Nil}}
        \cup {WithResourceID(id) : id \in 0..MaxId}
        \cup {WithContext}

OptionLists == UNION {[1..n -> Options] : n \in 0..MaxOpts}

\* One option applied to the Mutex under construction m = [conn, so, err, r].
ApplyOption(m, o) ==
    CASE o.opt = "WithConn" -> [m EXCEPT !.conn = o.conn]
      [] o.opt = "WithConnStr" ->
            IF o.conn = Nil THEN [m EXCEPT !.err = TRUE]
            ELSE [m EXCEPT !.conn = o.conn]
      [] o.opt = "WithResourceID" ->
            IF o.id = 0 THEN [m EXCEPT !.err = TRUE]
            ELSE LET g == getSingleton(m.r, o.id)
                 IN  [m EXCEPT !.so = g.s,
                               !.r = [singletons |-> g.singletons, heap |-> g.heap]]
      [] OTHER -> m

\* The option loop of NewMutex: stops at the first option that errors.
RECURSIVE ApplyOptions(_, _, _)
ApplyOptions(m, options, i) ==
    IF i > Len(options) \/ m.err THEN m
    ELSE ApplyOptions(ApplyOption(m, options[i]), options, i + 1)

\* Mutant of NewMutexResult: the check of m.conn is left out.
NewMutexResult_NoConnCheck(r, options, now) ==
    LET m0 == [conn |-> Nil, so |-> Nil, err |-> FALSE, r |-> r]
        m1 == ApplyOptions(m0, options, 1)
    IN  IF m1.err THEN m1
        ELSE IF m1.so = Nil
             THEN LET g == getSingleton(m1.r, now)
                  IN  [m1 EXCEPT !.so = g.s,
                                 !.r = [singletons |-> g.singletons, heap |-> g.heap]]
             ELSE m1

\* NewMutex(options...) run against registry r with the clock reading now; the
\* result is the Mutex (err = TRUE: nil, error) and the registry afterwards.
NewMutexResult(r, options, now) ==
    LET m0 == [conn |-> Nil, so |-> Nil, err |-> FALSE, r |-> r]
        m1 == ApplyOptions(m0, options, 1)
    IN  IF m1.err THEN m1
        ELSE IF m1.conn = Nil THEN [m1 EXCEPT !.err = TRUE]
        ELSE IF m1.so = Nil
             THEN LET g == getSingleton(m1.r, now)
                  IN  [m1 EXCEPT !.so = g.s,
                                 !.r = [singletons |-> g.singletons, heap |-> g.heap]]
             ELSE m1

\* The call NewMutex(call.options...) with the clock reading call.now; a
\* Mutex it returns becomes handle h.
NewMutex(h) ==
    /\ ~crashed
    /\ so[h] = Nil
    /\ call.ret = "-"
    /\ LET m == NewMutexResult([singletons |-> singletons, heap |-> heap],
                               call.options, call.now)
       IN  /\ singletons' = m.r.singletons
           /\ heap' = m.r.heap
           /\ IF m.err
              THEN /\ UNCHANGED <<conn, so>>
                   /\ call' = [call EXCEPT !.ret = "err"]
              ELSE /\ conn' = [conn EXCEPT ![h] = m.conn]
                   /\ so' = [so EXCEPT ![h] = m.so]
                   /\ call' = [call EXCEPT !.ret = "nil"]
    /\ UNCHANGED <<pc, ret, sent, held, adv, crashed>>

GetResourceID(h) == heap[so[h]].id

\* ------------------------------------------------- the database (advisory locks)

\* No session other than s holds key k.
NotHeldByOthers(k, s) == \A t \in AllSessions \ {s} : adv[k][t] = 0

\* pg_advisory_lock / pg_try_advisory_lock granted to session s: re-entrant.
Grant(k, s) == [adv EXCEPT ![k][s] = @ + 1]

\* pg_advisory_unlock by session s: drops one hold if it has one, otherwise
\* answers false with a warning; neither is an error of the statement.
Release(k, s) == IF adv[k][s] > 0 THEN [adv EXCEPT ![k][s] = @ - 1] ELSE adv

\* Another process takes or drops the lock of a key this process uses.
ExtLock(k) ==
    /\ k \in DOMAIN singletons
    /\ adv[k][Ext] = 0
    /\ NotHeldByOthers(k, Ext)
    /\ adv' = Grant(k, Ext)
    /\ UNCHANGED <<call, singletons, heap, conn, so, pc, ret, sent, held, crashed>>

ExtUnlock(k) ==
    /\ adv[k][Ext] > 0
    /\ adv' = Release(k, Ext)
    /\ UNCHANGED <<call, singletons, heap, conn, so, pc, ret, sent, held, crashed>>

\* ------------------------------------------------------------- sync.Mutex

\* Mutant of soUnlock: the guard is never unlocked.
soUnlock_Noop(s) ==
    /\ heap' = heap
    /\ crashed' = crashed

\* s.Unlock(): unlocking an unlocked sync.Mutex is a fatal runtime error;
\* a locked one is unlocked whoever locked it.
soUnlock(s) ==
    IF heap[s].mu = Free
    THEN /\ crashed' = TRUE
         /\ heap' = heap
    ELSE /\ heap' = [heap EXCEPT ![s].mu = Free]
         /\ crashed' = crashed

\* ------------------------------------------------------------------ Lock

Constructed(h) == so[h] # Nil

LockCall(h) ==
    /\ ~crashed
    /\ Constructed(h)
    /\ pc[h] = "idle"
    /\ pc' = [pc EXCEPT ![h] = "Lock:so.Lock"]
    /\ ret' = [ret EXCEPT ![h] = "-"]
    /\ sent' = [sent EXCEPT ![h] = FALSE]
    /\ UNCHANGED <<call, singletons, heap, conn, so, held, adv, crashed>>

\* Mutant of LockLocal: m.so.Lock() returns although the guard is locked.
LockLocal_Barges(h) ==
    /\ ~crashed
    /\ pc[h] = "Lock:so.Lock"
    /\ heap' = [heap EXCEPT ![so[h]].mu = h]
    /\ pc' = [pc EXCEPT ![h] = "Lock:Exec"]
    /\ sent' = [sent EXCEPT ![h] = TRUE]
    /\ UNCHANGED <<call, singletons, conn, so, ret, held, adv, crashed>>

\* Mutant of LockLocal: one guard for the whole process, m.so.Lock() waits
\* until the guard of every identifier is free.
LockLocal_GlobalGuard(h) ==
    /\ ~crashed
    /\ pc[h] = "Lock:so.Lock"
    /\ \A s \in DOMAIN heap : heap[s].mu = Free
    /\ heap' = [heap EXCEPT ![so[h]].mu = h]
    /\ pc' = [pc EXCEPT ![h] = "Lock:Exec"]
    /\ sent' = [sent EXCEPT ![h] = TRUE]
    /\ UNCHANGED <<call, singletons, conn, so, ret, held, adv, crashed>>

\* m.so.Lock() returns, and the pg_advisory_lock statement goes out.
LockLocal(h) ==
    /\ ~crashed
    /\ pc[h] = "Lock:so.Lock"
    /\ heap[so[h]].mu = Free
    /\ heap' = [heap EXCEPT ![so[h]].mu = h]
    /\ pc' = [pc EXCEPT ![h] = "Lock:Exec"]
    /\ sent' = [sent EXCEPT ![h] = TRUE]
    /\ UNCHANGED <<call, singletons, conn, so, ret, held, adv, crashed>>

\* The statement returns nil: the session was granted the lock.
LockExecOk(h) ==
    /\ ~crashed
    /\ pc[h] = "Lock:Exec"
    /\ NotHeldByOthers(heap[so[h]].id, conn[h])
    /\ adv[heap[so[h]].id][conn[h]] < MaxCount
    /\ adv' = Grant(heap[so[h]].id, conn[h])
    /\ pc' = [pc EXCEPT ![h] = "idle"]
    /\ ret' = [ret EXCEPT ![h] = "Lock:nil"]
    /\ held' = [held EXCEPT ![h] = TRUE]
    /\ UNCHANGED <<call, singletons, heap, conn, so, sent, crashed>>

\* Mutant of LockExecErr: the error is returned without m.so.Unlock().
LockExecErr_KeepsGuard(h) ==
    /\ ~crashed
    /\ pc[h] = "Lock:Exec"
    /\ pc' = [pc EXCEPT ![h] = "idle"]
    /\ ret' = [ret EXCEPT ![h] = "Lock:err"]
    /\ UNCHANGED <<call, singletons, heap, conn, so, sent, held, adv, crashed>>

\* Mutant of LockExecErr: after a failed statement Lock() starts over.
LockExecErr_Retries(h) ==
    /\ ~crashed
    /\ pc[h] = "Lock:Exec"
    /\ soUnlock(so[h])
    /\ IF crashed' THEN UNCHANGED <<pc, ret>>
       ELSE /\ pc' = [pc EXCEPT ![h] = "Lock:so.Lock"]
            /\ UNCHANGED ret
    /\ UNCHANGED <<call, singletons, conn, so, sent, held, adv>>

\* The statement returns an error: m.so.Unlock(), return the error.
LockExecErr(h) ==
    /\ ~crashed
    /\ pc[h] = "Lock:Exec"
    /\ soUnlock(so[h])
    /\ IF crashed' THEN UNCHANGED <<pc, ret>>
       ELSE /\ pc' = [pc EXCEPT ![h] = "idle"]
            /\ ret' = [ret EXCEPT ![h] = "Lock:err"]
    /\ UNCHANGED <<call, singletons, conn, so, sent, held, adv>>

\* ---------------------------------------------------------------- Unlock

\* Unlock() starts with the pg_advisory_unlock statement: nothing is checked first.
UnlockCall(h) ==
    /\ ~crashed
    /\ Constructed(h)
    /\ pc[h] = "idle"
    /\ pc' = [pc EXCEPT ![h] = "Unlock:Exec"]
    /\ ret' = [ret EXCEPT ![h] = "-"]
    /\ sent' = [sent EXCEPT ![h] = TRUE]
    /\ UNCHANGED <<call, singletons, heap, conn, so, held, adv, crashed>>

\* Mutant of UnlockExecOk: nil is returned without m.so.Unlock().
UnlockExecOk_KeepsGuard(h) ==
    /\ ~crashed
    /\ pc[h] = "Unlock:Exec"
    /\ adv' = Release(heap[so[h]].id, conn[h])
    /\ pc' = [pc EXCEPT ![h] = "idle"]
    /\ ret' = [ret EXCEPT ![h] = "Unlock:nil"]
    /\ held' = [held EXCEPT ![h] = FALSE]
    /\ UNCHANGED <<call, singletons, heap, conn, so, sent, crashed>>

\* The statement returns nil: m.so.Unlock(), return nil.
UnlockExecOk(h) ==
    /\ ~crashed
    /\ pc[h] = "Unlock:Exec"
    /\ adv' = Release(heap[so[h]].id, conn[h])
    /\ soUnlock(so[h])
    /\ IF crashed' THEN UNCHANGED <<pc, ret, held>>
       ELSE /\ pc' = [pc EXCEPT ![h] = "idle"]
            /\ ret' = [ret EXCEPT ![h] = "Unlock:nil"]
            /\ held' = [held EXCEPT ![h] = FALSE]
    /\ UNCHANGED <<call, singletons, conn, so, sent>>

\* Mutant of UnlockExecErr: m.so.Unlock() also when the statement failed.
UnlockExecErr_FreesGuard(h) ==
    /\ ~crashed
    /\ pc[h] = "Unlock:Exec"
    /\ soUnlock(so[h])
    /\ pc' = [pc EXCEPT ![h] = "idle"]
    /\ ret' = [ret EXCEPT ![h] = "Unlock:err"]
    /\ UNCHANGED <<call, singletons, conn, so, sent, held, adv>>

\* The statement returns an error: return it, m.so is left as it is.
UnlockExecErr(h) ==
    /\ ~crashed
    /\ pc[h] = "Unlock:Exec"
    /\ pc' = [pc EXCEPT ![h] = "idle"]
    /\ ret' = [ret EXCEPT ![h] = "Unlock:err"]
    /\ UNCHANGED <<call, singletons, heap, conn, so, sent, held, adv, crashed>>

\* --------------------------------------------------------------- TryLock

\* Mutant of TryLockBusy: the result of m.so.TryLock() is ignored and the
\* query goes out although the guard was not taken.
TryLockBusy_AsksAnyway(h) ==
    /\ ~crashed
    /\ Constructed(h)
    /\ pc[h] = "idle"
    /\ heap[so[h]].mu # Free
    /\ pc' = [pc EXCEPT ![h] = "TryLock:QueryRow"]
    /\ ret' = [ret EXCEPT ![h] = "-"]
    /\ sent' = [sent EXCEPT ![h] = TRUE]
    /\ UNCHANGED <<call, singletons, heap, conn, so, held, adv, crashed>>

\* m.so.TryLock() fails: return (false, nil).
TryLockBusy(h) ==
    /\ ~crashed
    /\ Constructed(h)
    /\ pc[h] = "idle"
    /\ heap[so[h]].mu # Free
    /\ ret' = [ret EXCEPT ![h] = "TryLock:false,nil"]
    /\ sent' = [sent EXCEPT ![h] = FALSE]
    /\ UNCHANGED <<call, singletons, heap, conn, so, pc, held, adv, crashed>>

\* m.so.TryLock() succeeds, and the pg_try_advisory_lock query goes out.
TryLockLocal(h) ==
    /\ ~crashed
    /\ Constructed(h)
    /\ pc[h] = "idle"
    /\ heap[so[h]].mu = Free
    /\ heap' = [heap EXCEPT ![so[h]].mu = h]
    /\ pc' = [pc EXCEPT ![h] = "TryLock:QueryRow"]
    /\ ret' = [ret EXCEPT ![h] = "-"]
    /\ sent' = [sent EXCEPT ![h] = TRUE]
    /\ UNCHANGED <<call, singletons, conn, so, held, adv, crashed>>

\* Mutant of TryLockQueryTrue: m.so.Unlock() also when acquired = true.
TryLockQueryTrue_FreesGuard(h) ==
    /\ ~crashed
    /\ pc[h] = "TryLock:QueryRow"
    /\ NotHeldByOthers(heap[so[h]].id, conn[h])
    /\ adv[heap[so[h]].id][conn[h]] < MaxCount
    /\ adv' = Grant(heap[so[h]].id, conn[h])
    /\ soUnlock(so[h])
    /\ pc' = [pc EXCEPT ![h] = "idle"]
    /\ ret' = [ret EXCEPT ![h] = "TryLock:true,nil"]
    /\ held' = [held EXCEPT ![h] = TRUE]
    /\ UNCHANGED <<call, singletons, conn, so, sent>>

\* The query scans acquired = true: return (true, nil).
TryLockQueryTrue(h) ==
    /\ ~crashed
    /\ pc[h] = "TryLock:QueryRow"
    /\ NotHeldByOthers(heap[so[h]].id, conn[h])
    /\ adv[heap[so[h]].id][conn[h]] < MaxCount
    /\ adv' = Grant(heap[so[h]].id, conn[h])
    /\ pc' = [pc EXCEPT ![h] = "idle"]
    /\ ret' = [ret EXCEPT ![h] = "TryLock:true,nil"]
    /\ held' = [held EXCEPT ![h] = TRUE]
    /\ UNCHANGED <<call, singletons, heap, conn, so, sent, crashed>>

\* Mutant of TryLockQueryFalse: (false, nil) is returned without m.so.Unlock().
TryLockQueryFalse_KeepsGuard(h) ==
    /\ ~crashed
    /\ pc[h] = "TryLock:QueryRow"
    /\ ~NotHeldByOthers(heap[so[h]].id, conn[h])
    /\ pc' = [pc EXCEPT ![h] = "idle"]
    /\ ret' = [ret EXCEPT ![h] = "TryLock:false,nil"]
    /\ UNCHANGED <<call, singletons, heap, conn, so, sent, held, adv, crashed>>

\* Mutant of TryLockQueryFalse: on acquired = false the query is sent again.
TryLockQueryFalse_Retries(h) ==
    /\ ~crashed
    /\ pc[h] = "TryLock:QueryRow"
    /\ ~NotHeldByOthers(heap[so[h]].id, conn[h])
    /\ UNCHANGED vars

\* The query scans acquired = false: m.so.Unlock(), return (false, nil).
TryLockQueryFalse(h) ==
    /\ ~crashed
    /\ pc[h] = "TryLock:QueryRow"
    /\ ~NotHeldByOthers(heap[so[h]].id, conn[h])
    /\ soUnlock(so[h])
    /\ IF crashed' THEN UNCHANGED <<pc, ret>>
       ELSE /\ pc' = [pc EXCEPT ![h] = "idle"]
            /\ ret' = [ret EXCEPT ![h] = "TryLock:false,nil"]
    /\ UNCHANGED <<call, singletons, conn, so, sent, held, adv>>

\* The query fails: m.so.Unlock(), return (false, error).
TryLockQueryErr(h) ==
    /\ ~crashed
    /\ pc[h] = "TryLock:QueryRow"
    /\ soUnlock(so[h])
    /\ IF crashed' THEN UNCHANGED <<pc, ret>>
       ELSE /\ pc' = [pc EXCEPT ![h] = "idle"]
            /\ ret' = [ret EXCEPT ![h] = "TryLock:false,err"]
    /\ UNCHANGED <<call, singletons, conn, so, sent, held, adv>>

\* ------------------------------------------------------- specifications

\* The process has built its handles, handle 1 first, each by
\* NewMutex(WithConn(c), WithResourceID(id)) for some session c and identifier id.
\* Sessions and identifiers are only ever compared for equality, so a handle
\* takes one an earlier handle uses or the lowest unused one.
RECURSIVE Built(_, _)
Built(cfg, h) ==
    IF h = 0
    THEN [r |-> [singletons |-> <<>>, heap |-> <<>>],
          conn |-> [g \in Handles |-> Nil], so |-> [g \in Handles |-> Nil]]
    ELSE LET b == Built(cfg, h - 1)
             m == NewMutexResult(b.r, <<WithConn(cfg[h].conn), WithResourceID(cfg[h].id)>>,
                                 cfg[h].id)
         IN  [r |-> m.r,
              conn |-> [b.conn EXCEPT ![h] = m.conn],
              so |-> [b.so EXCEPT ![h] = m.so]]

Init ==
    /\ \E cfg \in [Handles -> [conn : Sessions, id : Ids]] :
         LET b == Built(cfg, NumHandles)
         IN  /\ \A h \in Handles :
                  /\ cfg[h].conn <= 1 + Cardinality({cfg[g].conn : g \in 1..(h - 1)})
                  /\ cfg[h].id <= 1 + Cardinality({cfg[g].id : g \in 1..(h - 1)})
             /\ singletons = b.r.singletons
             /\ heap = b.r.heap
             /\ conn = b.conn
             /\ so = b.so
    /\ pc = [h \in Handles |-> "idle"]
    /\ ret = [h \in Handles |-> "-"]
    /\ sent = [h \in Handles |-> FALSE]
    /\ held = [h \in Handles |-> FALSE]
    /\ adv = [k \in Ids |-> [s \in AllSessions |-> 0]]
    /\ crashed = FALSE
    /\ call = [options |-> <<>>, now |-> 1, ret |-> "-"]

\* What every caller may do, and what the database and the runtime do.
Step ==
    \/ \E h \in Handles : LockCall(h)
    \/ \E h \in Handles : LockLocal(h)
    \/ \E h \in Handles : LockExecOk(h)
    \/ \E h \in Handles : LockExecErr(h)
    \/ \E h \in Handles : TryLockBusy(h)
    \/ \E h \in Handles : TryLockLocal(h)
    \/ \E h \in Handles : TryLockQueryTrue(h)
    \/ \E h \in Handles : TryLockQueryFalse(h)
    \/ \E h \in Handles : TryLockQueryErr(h)
    \/ \E h \in Handles : UnlockExecOk(h)
    \/ \E h \in Handles : UnlockExecErr(h)
    \/ \E k \in Ids : ExtLock(k)
    \/ \E k \in Ids : ExtUnlock(k)

\* Callers that keep the contract of Unlock: only on a handle that is held.
Next ==
    \/ Step
    \/ \E h \in Handles : held[h] /\ UnlockCall(h)

Spec == Init /\ [][Next]_vars

\* Callers that unlock what they hold: Unlock only on a held handle, and no
\* Lock() on a handle that is held (it would wait for itself).
NextLive ==
    \/ \E h \in Handles : ~held[h] /\ LockCall(h)
    \/ \E h \in Handles : LockLocal(h)
    \/ \E h \in Handles : LockExecOk(h)
    \/ \E h \in Handles : LockExecErr(h)
    \/ \E h \in Handles : TryLockBusy(h)
    \/ \E h \in Handles : TryLockLocal(h)
    \/ \E h \in Handles : TryLockQueryTrue(h)
    \/ \E h \in Handles : TryLockQueryFalse(h)
    \/ \E h \in Handles : TryLockQueryErr(h)
    \/ \E h \in Handles : held[h] /\ UnlockCall(h)
    \/ \E h \in Handles : UnlockExecOk(h)
    \/ \E h \in Handles : UnlockExecErr(h)
    \/ \E k \in Ids : ExtLock(k)
    \/ \E k \in Ids : ExtUnlock(k)

\* Fair scheduling: sync.Mutex serves every waiter (a handle waiting in
\* m.so.Lock() while the guard is free again and again gets it), every remote
\* statement returns, and every held handle is unlocked: Unlock() is called
\* on it and does not fail for ever.
SpecLive ==
    /\ Init
    /\ [][NextLive]_vars
    /\ \A h \in Handles :
         /\ SF_vars(LockLocal(h))
         /\ WF_vars(LockExecOk(h) \/ LockExecErr(h))
         /\ WF_vars(TryLockQueryTrue(h) \/ TryLockQueryFalse(h) \/ TryLockQueryErr(h))
         /\ WF_vars(held[h] /\ UnlockCall(h))
         /\ SF_vars(UnlockExecOk(h))

\* Any callers that unlock only held handles, nothing unlocked by obligation;
\* the database answers every pg_try_advisory_lock query.
SpecTry ==
    /\ Init
    /\ [][Next]_vars
    /\ \A h \in Handles : WF_vars(TryLockQueryTrue(h) \/ TryLockQueryFalse(h))

\* Callers that call Unlock on any handle at any time.
NextAnyCaller ==
    \/ Step
    \/ \E h \in Handles : UnlockCall(h)

SpecAnyCaller == Init /\ [][NextAnyCaller]_vars

\* The registry after getSingleton was called for pre[1], ..., pre[n].
RECURSIVE Registered(_, _)
Registered(pre, n) ==
    IF n = 0 THEN [singletons |-> <<>>, heap |-> <<>>]
    ELSE LET g == getSingleton(Registered(pre, n - 1), pre[n])
         IN  [singletons |-> g.singletons, heap |-> g.heap]

\* Construction studied by itself: the registry is what earlier getSingleton
\* calls made it, and one NewMutex call with any option list is made.
InitNew ==
    /\ \E pre \in UNION {[1..n -> Ids] : n \in 0..MaxId} :
         /\ singletons = Registered(pre, Len(pre)).singletons
         /\ heap = Registered(pre, Len(pre)).heap
    /\ conn = [h \in Handles |-> Nil]
    /\ so = [h \in Handles |-> Nil]
    /\ pc = [h \in Handles |-> "idle"]
    /\ ret = [h \in Handles |-> "-"]
    /\ sent = [h \in Handles |-> FALSE]
    /\ held = [h \in Handles |-> FALSE]
    /\ adv = [k \in Ids |-> [s \in AllSessions |-> 0]]
    /\ crashed = FALSE
    /\ call \in [options : OptionLists, now : Ids, ret : {"-"}]

NextNew == \E h \in Handles : NewMutex(h)

SpecNew == InitNew /\ [][NextNew]_vars

\* ------------------------------------------------------------- properties

mu(h) == heap[so[h]].mu                    \* the Local Guard of h's identifier
\* Two constructed handles of one identifier.
SameId(g, h) ==
    /\ g # h
    /\ Constructed(g)
    /\ Constructed(h)
    /\ GetResourceID(g) = GetResourceID(h)

\* The call in flight on h returns in this step.
Returns(h, from) == pc[h] = from /\ pc'[h] = "idle"

\* C1: of the handles of one identifier at most one is held at any time, under
\* every interleaving of Lock, TryLock and Unlock calls, whoever calls them.
C1_AtMostOneHeld ==
    \A g, h \in Handles : SameId(g, h) => ~(held[g] /\ held[h])

\* C2: when the pg_advisory_lock statement of Lock() fails (the call ends and
\* the session was granted nothing), Lock() returns the error, the handle is
\* not held by it, and the Local Guard is free at the return.
C2_FailedLockFreesGuard ==
    [][\A h \in Handles :
         (Returns(h, "Lock:Exec")
            /\ adv'[GetResourceID(h)][conn[h]] = adv[GetResourceID(h)][conn[h]])
         => /\ ret'[h] = "Lock:err"
            /\ heap'[so[h]].mu = Free
            /\ held'[h] = held[h]
            /\ ~crashed']_vars

\* A handle's Lock() failed remotely and, with no further call on that handle,
\* the other handle of the identifier has taken the guard.
C2_Witness ==
    /\ SameId(1, 2)
    /\ ret[1] = "Lock:err"
    /\ mu(2) = 2
    /\ pc[2] \in {"Lock:Exec", "TryLock:QueryRow"}

\* C3: when the pg_advisory_unlock statement of Unlock() fails, Unlock() returns
\* the error and the Local Guard stays locked by that handle, which stays held;
\* and no handle becomes held while another handle of its identifier is held,
\* so nobody else acquires until an Unlock() of the failing handle succeeds.
C3_FailedUnlockKeepsGuard ==
    [][\A h \in Handles :
         /\ (Returns(h, "Unlock:Exec") /\ ret'[h] = "Unlock:err")
            => (held[h] /\ held'[h] /\ mu(h) = h /\ heap'[so[h]].mu = h)
         /\ (held[h] /\ held'[h])
            => \A g \in Handles : SameId(g, h) => (~held'[g] /\ heap'[so[h]].mu = h)]_vars

\* An Unlock() has failed on handle 1, which still owns the guard, while
\* handle 2 of the same identifier waits in Lock().
C3_Witness ==
    /\ SameId(1, 2)
    /\ ret[1] = "Unlock:err"
    /\ held[1]
    /\ mu(1) = 1
    /\ pc[2] = "Lock:so.Lock"

\* C4: an Unlock() on a handle that is not held returns an error and leaves the
\* Local Guard of the identifier as it was.
C4_UnlockNotHeldIsError ==
    [][\A h \in Handles :
         (~held[h] /\ Returns(h, "Unlock:Exec"))
         => (ret'[h] = "Unlock:err" /\ heap'[so[h]].mu = mu(h))]_vars

\* C5: a pg_advisory_unlock statement is in flight for a handle only if the
\* handle is held, i.e. has a successful acquire not yet matched by a
\* successful release.
C5_ReleaseOnlyAfterAcquire ==
    \A h \in Handles : pc[h] = "Unlock:Exec" => held[h]

\* The call on h that this step completes without leaving "idle" (TryLock
\* refused by the Local Guard is the only such call).
ReturnsAtOnce(h) ==
    pc[h] = "idle" /\ pc'[h] = "idle" /\ <<ret'[h], sent'[h]>> # <<ret[h], sent[h]>>

NoLocalContender(h) ==
    \A g \in Handles : SameId(g, h) => (pc[g] = "idle" /\ ~held[g])

\* C8: a Lock() takes the guard and one hold of the advisory lock, and once the
\* Unlock() that follows has returned nil, with no other handle of the
\* identifier held or in a call, the Local Guard is free and no session of the
\* process holds the advisory lock: the state the cycle started from.
C8_RoundTrip ==
    \A h \in Handles :
        /\ (ret[h] = "Lock:nil" /\ NoLocalContender(h))
           => (mu(h) = h /\ adv[GetResourceID(h)][conn[h]] = 1)
        /\ (ret[h] = "Unlock:nil" /\ NoLocalContender(h))
           => (mu(h) = Free /\ \A c \in Sessions : adv[GetResourceID(h)][c] = 0)

\* Handle 1 has completed Lock() and Unlock() and nothing of it is left.
C8_Witness ==
    /\ ret[1] = "Unlock:nil"
    /\ sent[1]
    /\ NoLocalContender(1)
    /\ mu(1) = Free
    /\ \A c \in AllSessions : adv[GetResourceID(1)][c] = 0

C10_StrictAlternation ==
    [][\A h \in Handles :
         /\ (Returns(h, "Lock:Exec") /\ ret'[h] = "Lock:nil") => ~held[h]
         /\ (Returns(h, "Unlock:Exec") /\ ret'[h] = "Unlock:nil") => held[h]]_vars

GivenConn(options) ==
    LET I == {i \in DOMAIN options :
                \/ options[i].opt = "WithConn"
                \/ options[i].opt = "WithConnStr" /\ options[i].conn # Nil}
    IN  IF I = {} THEN Nil
        ELSE options[CHOOSE i \in I : \A j \in I : j <= i].conn
GivenIds(options) ==
    {options[i].id : i \in {j \in DOMAIN options : options[j].opt = "WithResourceID"}}
ConnectFails(options) == \E i \in DOMAIN options : options[i] = WithConnStr(Nil)

\* This step is the return of the NewMutex call.
NewMutexReturns == call.ret = "-" /\ call'.ret # "-"

\* C12: NewMutex returns an error and no handle when no connection is supplied
\* and when the identifier 0 is supplied; with a connection and no identifier
\* (and no failing option) it returns a handle on that connection whose
\* identifier is the non-zero clock reading and whose guard is the registry's
\* guard of that identifier.
C12_Construction ==
    [][NewMutexReturns
       => /\ (GivenConn(call.options) = Nil \/ 0 \in GivenIds(call.options))
             => (call'.ret = "err" /\ conn' = conn /\ so' = so)
          /\ (GivenConn(call.options) # Nil /\ GivenIds(call.options) = {}
                /\ ~ConnectFails(call.options))
             => /\ call'.ret = "nil"
                /\ \E h \in Handles :
                     /\ so[h] = Nil
                     /\ so'[h] # Nil
                     /\ conn'[h] = GivenConn(call.options)
                     /\ heap'[so'[h]].id = call.now
                     /\ heap'[so'[h]].id # 0
                     /\ call.now \in DOMAIN singletons'
                     /\ singletons'[call.now] = so'[h]]_vars

\* NewMutex(WithConn(1)) has returned handle 1 on an identifier taken from the clock.
C12_Witness ==
    /\ call.ret = "nil"
    /\ call.options = <<WithConn(1)>>
    /\ so[1] # Nil
    /\ conn[1] = 1
    /\ GetResourceID(1) = call.now
    /\ singletons[call.now] = so[1]

\* C20: a NewMutex call that returns an error leaves the registry as it was.
C20_FailedConstructionKeepsRegistry ==
    [][(NewMutexReturns /\ call'.ret = "err")
       => (singletons' = singletons /\ heap' = heap)]_vars

\* The pg_advisory_lock / pg_try_advisory_lock statement of h is in flight.
Acquiring(h) == pc[h] \in {"Lock:Exec", "TryLock:QueryRow"}

\* C13: a handle has its remote acquire in flight only while it owns the Local
\* Guard, so the acquires of two handles of one identifier never overlap, and
\* none is in flight while another handle of the identifier is held.
C13_AcquiresDoNotOverlap ==
    \A h \in Handles :
        Acquiring(h)
        => /\ mu(h) = h
           /\ \A g \in Handles : SameId(g, h) => (~Acquiring(g) /\ ~held[g])

\* Both handles of one identifier called Lock(): handle 1 has its statement in
\* flight, handle 2 is still waiting in m.so.Lock().
C13_Witness ==
    /\ SameId(1, 2)
    /\ pc[1] = "Lock:Exec"
    /\ pc[2] = "Lock:so.Lock"

\* Registry sg over the guards hp: each entry points to a guard of its own
\* identifier, and no two guards ever allocated carry one identifier.
RegistryUnique(sg, hp) ==
    /\ \A id \in DOMAIN sg : sg[id] \in 1..Len(hp) /\ hp[sg[id]].id = id
    /\ \A i, j \in 1..Len(hp) : hp[i].id = hp[j].id => i = j

C15_LockReturns ==
    \A h \in Handles : pc[h] \in {"Lock:so.Lock", "Lock:Exec"} ~> pc[h] = "idle"

\* Handle 2 got the lock by Lock() after handle 1 of the same identifier had
\* unlocked.
C15_Witness ==
    /\ SameId(1, 2)
    /\ ret[1] = "Unlock:nil"
    /\ ret[2] = "Lock:nil"
    /\ held[2]
\* C16: every TryLock() call returns once the database answers its query,
\* whatever the other handles and sessions hold and however long: a call
\* refused by the Local Guard returns within its own step, the others after
\* their single query.
C16_TryLockReturns ==
    \A h \in Handles : pc[h] = "TryLock:QueryRow" ~> pc[h] = "idle"

\* The key is held by another process; the query of the TryLock() on handle 2
\* was answered and the call returned, and handle 1 now waits for the key in
\* Lock() with the guard of the identifier locked.
C16_Witness ==
    /\ SameId(1, 2)
    /\ adv[GetResourceID(2)][Ext] > 0
    /\ pc[1] = "Lock:Exec"
    /\ pc[2] = "idle"
    /\ sent[2]
    /\ ret[2] = "TryLock:false,nil"

\* The places of a call where its remote statement is outstanding.
StatementPc == {"Lock:Exec", "Unlock:Exec", "TryLock:QueryRow"}

\* C17: a call issues its remote statement at most once. A statement goes out
\* only on the way into a call (never from a place where one is outstanding),
\* and when it has returned, failed or not, the call returns; Lock() and
\* Unlock() return only after their statement, TryLock() after its query or,
\* refused by the guard, with nothing sent.
C17_NoRetry ==
    [][\A h \in Handles :
         /\ (pc[h] \in StatementPc /\ pc'[h] # pc[h])
            => (pc'[h] = "idle" /\ ret'[h] # "-" /\ sent'[h])
         /\ (pc[h] = "Lock:so.Lock" /\ pc'[h] # pc[h]) => pc'[h] = "Lock:Exec"
         /\ (pc'[h] \in StatementPc /\ pc'[h] # pc[h])
            => (pc[h] \notin StatementPc /\ sent'[h])
         /\ (sent'[h] /\ ~sent[h]) => (pc'[h] \in StatementPc /\ pc'[h] # pc[h])
         /\ (ret'[h] # ret[h] /\ ret'[h] # "-")
            => \/ pc[h] \in StatementPc /\ sent[h]
               \/ ReturnsAtOnce(h) /\ ret'[h] = "TryLock:false,nil" /\ ~sent'[h]]_vars

\* The statement of a Lock() on handle 1 and the one of an Unlock() on handle 2
\* have failed, and both calls have returned the error.
C17_Witness ==
    /\ pc[1] = "idle"
    /\ ret[1] = "Lock:err"
    /\ pc[2] = "idle"
    /\ ret[2] = "Unlock:err"

\* C18: with callers that call Unlock only on held handles, a held handle owns
\* the Local Guard of its identifier and its session has a hold of the
\* advisory lock of that identifier.
C18_HeldOwnsGuardAndLock ==
    \A h \in Handles :
        held[h] => /\ mu(h) = h
                   /\ adv[GetResourceID(h)][conn[h]] > 0

\* Handle 1 is held through TryLock() and handle 2, of the same identifier on
\* a session of its own, is waiting for the guard in Lock().
C18_Witness ==
    /\ SameId(1, 2)
    /\ conn[1] # conn[2]
    /\ held[1]
    /\ ret[1] = "TryLock:true,nil"
    /\ pc[2] = "Lock:so.Lock"

\* The step is one of a call on handle h.
StepOf(h) == <<pc'[h], ret'[h], sent'[h]>> # <<pc[h], ret[h], sent[h]>>

\* C19: the calls on a handle read and change the Local Guard of the handle's
\* identifier only. While the process runs, whatever the guards of other
\* identifiers are, m.so.Lock() and m.so.TryLock() succeed as soon as the
\* handle's own guard is free; a TryLock() is refused only by the handle's own
\* guard; and a step of a call leaves the guard of every other identifier as
\* it is.
C19_NoCrossIdContention ==
    /\ [](\A h \in Handles :
            ~crashed /\ Constructed(h) /\ mu(h) = Free
            => /\ pc[h] = "Lock:so.Lock" => ENABLED LockLocal(h)
               /\ pc[h] = "idle" => ENABLED TryLockLocal(h))
    /\ [][/\ \A h \in Handles :
               /\ (ReturnsAtOnce(h) /\ ret'[h] = "TryLock:false,nil") => mu(h) # Free
               /\ StepOf(h) => \A s \in DOMAIN heap \ {so[h]} : heap'[s] = heap[s]
          /\ (\A h \in Handles : ~StepOf(h)) => heap' = heap]_vars

\* Handles 1 and 2 are of different identifiers; the guard of handle 1's
\* identifier is leaked (its Unlock() failed) and handle 2 went through Lock().
C19_Witness ==
    /\ Constructed(1)
    /\ Constructed(2)
    /\ GetResourceID(1) # GetResourceID(2)
    /\ pc[1] = "idle"
    /\ ret[1] = "Unlock:err"
    /\ mu(1) = 1
    /\ ret[2] = "Lock:nil"
    /\ held[2]

====
